---- MODULE Spec2Model ----
(***************************************************************************)
(* Control core of the shuairan VMM: Vmm::new / Vm::new (lib.rs, vm.rs),   *)
(* VcpuManager::new and the vCPU threads it spawns (vcpu.rs), and the      *)
(* kvm error conversion (error.rs).                                        *)
(*                                                                         *)
(* The control thread is sequential (variable ctl is its position); every  *)
(* vCPU thread is a separate process (thr[s] is its position).  Kernel     *)
(* handles and channel endpoints are tracked as "none" (never created),    *)
(* "open"/"alive" (owned by somebody) and "closed"/"dropped" (owner went   *)
(* out of scope).                                                          *)
(*                                                                         *)
(* broadcast and shutdown are described by the specification but are not   *)
(* part of the sources; they are modelled from the specification text      *)
(* (section 4.3) and kept apart from the operations modelled from code.    *)
(***************************************************************************)
EXTENDS Integers, Sequences, FiniteSets, TLC

\* ---------------------------------------------------------------- bounds
\* Largest cpu.count tried (the program allows up to MAX_VCPU_DEFAULT).
MaxCount == 3
\* Largest number of broadcast calls made by the control thread in one run.
MaxCalls == 2
\* Largest number of calls made on a logger in one run.
MaxLogCalls == 3

\* ------------------------------------------------------------- constants
\* errno values a failing kvm ioctl is tried with (ENOMEM, EMFILE).
Errnos == {12, 24}
\* Outcome of one kvm call: 0 is success, anything else the errno.
Outcomes == {0} \cup Errnos
\* Thread slots / loop indices.
Slots == 0 .. (MaxCount - 1)
\* memory.size_mib values tried.
MemSizes == {128}

VARIABLES
    ctl,          \* position of the control thread
    kvm_fd,       \* Vmm.kvm       : system-level handle made by Kvm::new
    vm_fd,        \* Vm.fd         : VM handle made by kvm.create_vm in Vmm::new
    vmm_res,      \* what Vmm::new returned
    mgr_fd,       \* parameter fd of VcpuManager::new (a VmFd taken by value)
    count,        \* config.count of VcpuManager::new
    idx,          \* loop variable i of VcpuManager::new
    threads,      \* Vec<JoinHandle>    : slots whose join handle is held
    chs_in_send,  \* Vec<Sender>        : slots whose control sender is held
    chs_out_recv, \* Vec<Receiver>      : slots whose reply receiver is held
    mgr_res,      \* what VcpuManager::new returned
    thr,          \* per slot: position of the vCPU thread
    vcpu_id,      \* per slot: Vcpu.id
    kvm_idx,      \* per slot: index given to create_vcpu
    vcpu_fd,      \* per slot: Vcpu.fd
    ch_in,        \* per slot: messages queued on the control channel
    in_tx,        \* per slot: control sender   (manager side)
    in_rx,        \* per slot: control receiver (Vcpu.ch_in_recv)
    ch_out,       \* per slot: messages queued on the reply channel
    out_tx,       \* per slot: reply sender     (Vcpu.ch_out_send)
    out_rx,       \* per slot: reply receiver   (manager side)
    join_res,     \* per slot: result of joining the thread
    bmsg,         \* message of the call in progress
    bi,           \* position inside the send / receive / join loop
    sent,         \* per position: did the send succeed
    results,      \* entries collected so far by broadcast
    calls,        \* history of completed broadcast / shutdown calls
    sd_done,      \* shutdown has completed
    json,         \* the Json value handed to VmConfig::from
    cfg_res,      \* what VmConfig::from returned
    log_level,    \* FileLogger.level
    log_file,     \* content of the logging file, character by character
    log_last,     \* the last call made on the logger
    log_ret       \* what the last call on the logger returned

vars == << ctl, kvm_fd, vm_fd, vmm_res, mgr_fd, count, idx, threads,
           chs_in_send, chs_out_recv, mgr_res, thr, vcpu_id, kvm_idx, vcpu_fd,
           ch_in, in_tx, in_rx, ch_out, out_tx, out_rx, join_res,
           bmsg, bi, sent, results, calls, sd_done,
           json, cfg_res, log_level, log_file, log_last, log_ret >>

\* State of the configuration builder and of the logger.
pureVars == << json, cfg_res, log_level, log_file, log_last, log_ret >>

vmmVars == << kvm_fd, vm_fd, vmm_res >>
newVars == << mgr_fd, count, idx, mgr_res >>
arrVars == << threads, chs_in_send, chs_out_recv >>
slotVars == << thr, vcpu_id, kvm_idx, vcpu_fd, ch_in, in_tx, in_rx,
               ch_out, out_tx, out_rx >>
callVars == << bmsg, bi, sent, results, calls, sd_done, join_res >>

NoRes == [tag |-> "none"]

\* ------------------------------------------------------------- error.rs
\* A kvm_ioctls::Error carrying errno e; its Display text is derived from e.
KvmError(e) == [errno |-> e, text |-> << "os error", e >>]

\* impl From<kvm_ioctls::Error> for Error
FromKvmError(e) == [tag |-> "IoctlError", errno |-> e.errno, msg |-> e.text]

Err(e) == [tag |-> "Err", err |-> e]

\* ---------------------------------------------------------------- vm.rs
\* GuestMemoryMmap::new(): a guest memory with no region at all.
GuestMemoryNew == [regions |-> 0, size_mib |-> 0]

VmStatus == {"Epoch", "Paused", "Running"}

\* Vm::new(fd, config)
VmNew(fd, config) ==
    [tag |-> "Ok",
     val |-> [fd |-> fd, config |-> config, memory |-> GuestMemoryNew,
              status |-> "Epoch"]]

\* --------------------------------------------------------------- lib.rs
VmConfigs ==
    [cpu : [count : 1 .. MaxCount], memory : [size_mib : MemSizes],
     vmm : {"None", "Some"}]

VmmNewKvm(e1, e2) ==
    IF e1 # 0 THEN "none" ELSE IF e2 # 0 THEN "closed" ELSE "open"

VmmNewVmFd(e1, e2) == IF e1 = 0 /\ e2 = 0 THEN "open" ELSE "none"

\* Value returned by Vmm::new(config) when Kvm::new has outcome e1 and
\* kvm.create_vm has outcome e2.
VmmNewResult(config, e1, e2) ==
    IF e1 # 0 THEN Err(FromKvmError(KvmError(e1)))
    ELSE IF e2 # 0 THEN Err(FromKvmError(KvmError(e2)))
    ELSE LET taken == config.vmm
             rest == [config EXCEPT !.vmm = "None"]
             vm == VmNew("vm_fd", rest)
         IN  IF vm.tag = "Ok"
             THEN [tag |-> "Ok",
                   val |-> [config |-> taken, kvm |-> "kvm_fd", vm |-> vm.val]]
             ELSE vm

\* Vmm::new
VmmNew ==
    /\ ctl = "idle"
    /\ vmm_res = NoRes
    /\ mgr_res = NoRes
    /\ \E config \in VmConfigs, e1 \in Outcomes, e2 \in Outcomes :
          /\ e1 # 0 => e2 = 0
          /\ vmm_res' = VmmNewResult(config, e1, e2)
          /\ kvm_fd' = VmmNewKvm(e1, e2)
          /\ vm_fd' = VmmNewVmFd(e1, e2)
    /\ UNCHANGED << pureVars, ctl, newVars, arrVars, slotVars, callVars >>

\* -------------------------------------------------------------- vcpu.rs
\* `for i in 0..config.count`: the loop goes on while i < count.
LoopContinues_short(i, c) == i + 1 < c

LoopContinues(i, c) == i < c

\* The id handed to Vcpu::new for loop index i.
VcpuId(i) == i

\* The index handed to create_vcpu for loop index i (`i as u64`).
CreateVcpuIndex(i) == i

\* Call of VcpuManager::new(fd, config): the caller hands over an open VmFd.
MgrNewCall ==
    /\ ctl = "idle"
    /\ mgr_res = NoRes
    /\ \E c \in 1 .. MaxCount : count' = c
    /\ idx' = 0
    /\ mgr_fd' = "open"
    /\ ctl' = "mgr_new"
    /\ UNCHANGED << pureVars, vmmVars, mgr_res, arrVars, slotVars, callVars >>

\* One iteration of the loop of VcpuManager::new with create_vcpu succeeding:
\* handle, both channels, the Vcpu and its thread are created and the three
\* vectors grow by one entry.
MgrNewSpawn ==
    /\ ctl = "mgr_new"
    /\ LoopContinues(idx, count)
    /\ kvm_idx' = [kvm_idx EXCEPT ![idx] = CreateVcpuIndex(idx)]
    /\ vcpu_fd' = [vcpu_fd EXCEPT ![idx] = "open"]
    /\ in_tx' = [in_tx EXCEPT ![idx] = "alive"]
    /\ in_rx' = [in_rx EXCEPT ![idx] = "alive"]
    /\ out_tx' = [out_tx EXCEPT ![idx] = "alive"]
    /\ out_rx' = [out_rx EXCEPT ![idx] = "alive"]
    /\ vcpu_id' = [vcpu_id EXCEPT ![idx] = VcpuId(idx)]
    /\ thr' = [thr EXCEPT ![idx] = "spawned"]
    /\ threads' = Append(threads, idx)
    /\ chs_in_send' = Append(chs_in_send, idx)
    /\ chs_out_recv' = Append(chs_out_recv, idx)
    /\ idx' = idx + 1
    /\ UNCHANGED << pureVars, ctl, vmmVars, mgr_fd, count, mgr_res, ch_in, ch_out,
                    callVars >>

\* Endpoints after the vector holding them for the slots of seq was dropped.
DropAll(ends, seq) ==
    [s \in Slots |->
        IF \E k \in 1 .. Len(seq) : seq[k] = s THEN "dropped" ELSE ends[s]]

\* One iteration of the loop with create_vcpu failing: `?` returns the
\* converted error; the three local vectors and the fd parameter are dropped.
MgrNewFail ==
    /\ ctl = "mgr_new"
    /\ LoopContinues(idx, count)
    /\ \E e \in Errnos : mgr_res' = Err(FromKvmError(KvmError(e)))
    /\ threads' = << >>
    /\ chs_in_send' = << >>
    /\ chs_out_recv' = << >>
    /\ in_tx' = DropAll(in_tx, chs_in_send)
    /\ out_rx' = DropAll(out_rx, chs_out_recv)
    /\ mgr_fd' = "closed"
    /\ ctl' = "idle"
    /\ UNCHANGED << pureVars, vmmVars, count, idx, thr, vcpu_id, kvm_idx, vcpu_fd,
                    ch_in, in_rx, ch_out, out_tx, callVars >>

\* Loop finished: Ok(VcpuManager { config, threads, chs_in_send,
\* chs_out_recv }); the fd parameter is not stored and is dropped.
MgrNewReturn ==
    /\ ctl = "mgr_new"
    /\ ~ LoopContinues(idx, count)
    /\ mgr_res' = [tag |-> "Ok", val |-> [config |-> [count |-> count]]]
    /\ mgr_fd' = "closed"
    /\ ctl' = "idle"
    /\ UNCHANGED << pureVars, vmmVars, count, idx, arrVars, slotVars, callVars >>

\* Vcpu::run(vcpu) on the thread of slot s: the body is todo!(), which
\* panics; unwinding drops the Vcpu, i.e. its kernel handle, its control
\* receiver (with everything queued on it) and its reply sender.
VcpuRun(s) ==
    /\ thr[s] = "spawned"
    /\ thr' = [thr EXCEPT ![s] = "panicked"]
    /\ vcpu_fd' = [vcpu_fd EXCEPT ![s] = "closed"]
    /\ in_rx' = [in_rx EXCEPT ![s] = "dropped"]
    /\ ch_in' = [ch_in EXCEPT ![s] = << >>]
    /\ out_tx' = [out_tx EXCEPT ![s] = "dropped"]
    /\ UNCHANGED << pureVars, ctl, vmmVars, newVars, arrVars, vcpu_id, kvm_idx, in_tx,
                    ch_out, out_rx, callVars >>

\* ------------------------------------------------------------------ Init
CoreInit ==
    /\ ctl = "idle"
    /\ kvm_fd = "none"
    /\ vm_fd = "none"
    /\ vmm_res = NoRes
    /\ mgr_fd = "none"
    /\ count = 0
    /\ idx = 0
    /\ threads = << >>
    /\ chs_in_send = << >>
    /\ chs_out_recv = << >>
    /\ mgr_res = NoRes
    /\ thr = [s \in Slots |-> "none"]
    /\ vcpu_id = [s \in Slots |-> -1]
    /\ kvm_idx = [s \in Slots |-> -1]
    /\ vcpu_fd = [s \in Slots |-> "none"]
    /\ ch_in = [s \in Slots |-> << >>]
    /\ in_tx = [s \in Slots |-> "none"]
    /\ in_rx = [s \in Slots |-> "none"]
    /\ ch_out = [s \in Slots |-> << >>]
    /\ out_tx = [s \in Slots |-> "none"]
    /\ out_rx = [s \in Slots |-> "none"]
    /\ join_res = [s \in Slots |-> "none"]
    /\ bmsg = "none"
    /\ bi = 0
    /\ sent = << >>
    /\ results = << >>
    /\ calls = << >>
    /\ sd_done = FALSE

\* No configuration is being built and no logger is in use.
PureIdle ==
    /\ json = NoRes
    /\ cfg_res = NoRes
    /\ log_level = "none"
    /\ log_file = << >>
    /\ log_last = NoRes
    /\ log_ret = "none"

Init == CoreInit /\ PureIdle

\* The operations present in the sources.
CodeNext ==
    \/ VmmNew
    \/ MgrNewCall
    \/ MgrNewSpawn
    \/ MgrNewFail
    \/ MgrNewReturn
    \/ \E s \in Slots : VcpuRun(s)

CodeSpec == Init /\ [][CodeNext]_vars

\* ------------------------------------------ broadcast / shutdown (spec 4.3)
\* Messages the control thread broadcasts.
CtlMsgs == {"Run", "Exit"}

ChannelError == [tag |-> "Err", err |-> "ChannelError"]

\* Sender::send on the control channel of slot s succeeds iff the manager
\* still has the sender and the receiver is still alive.
SendOk(s) == in_tx[s] = "alive" /\ in_rx[s] = "alive"

\* Receiver::recv on the reply channel of slot s returns once a message is
\* queued or the sender is gone; until then it blocks.  With the receiver
\* already consumed there is nothing to wait on.
RecvReady(s) ==
    out_rx[s] # "alive" \/ ch_out[s] # << >> \/ out_tx[s] # "alive"

\* What the entry of a vCPU is: the status carried by its reply, or
\* ChannelError when the send failed or the reply sender is gone.
RecvEntry(ok, s) ==
    IF ok /\ out_rx[s] = "alive" /\ ch_out[s] # << >>
    THEN [tag |-> "Ok", val |-> Head(ch_out[s]).status]
    ELSE ChannelError

\* Number of broadcast calls completed so far.
NumBroadcasts == Cardinality({k \in DOMAIN calls : calls[k].op = "broadcast"})

\* broadcast(msg) is called on a manager returned by VcpuManager::new.
BroadcastCall ==
    /\ ctl = "idle"
    /\ mgr_res.tag = "Ok"
    /\ NumBroadcasts < MaxCalls
    /\ \E m \in CtlMsgs : bmsg' = m
    /\ bi' = 0
    /\ sent' = << >>
    /\ results' = << >>
    /\ ctl' = "bc_send"
    /\ UNCHANGED << pureVars, vmmVars, newVars, arrVars, slotVars, calls, sd_done,
                    join_res >>

\* broadcast, first loop: send msg to the next vCPU in index order.
BroadcastSend ==
    /\ ctl = "bc_send"
    /\ bi < Len(chs_in_send)
    /\ LET s == chs_in_send[bi + 1]
       IN  /\ sent' = Append(sent, SendOk(s))
           /\ ch_in' = IF SendOk(s)
                       THEN [ch_in EXCEPT ![s] = Append(@, bmsg)]
                       ELSE ch_in
    /\ bi' = IF bi + 1 = Len(chs_in_send) THEN 0 ELSE bi + 1
    /\ ctl' = IF bi + 1 = Len(chs_in_send) THEN "bc_recv" ELSE "bc_send"
    /\ UNCHANGED << pureVars, vmmVars, newVars, arrVars, thr, vcpu_id, kvm_idx,
                    vcpu_fd, in_tx, in_rx, ch_out, out_tx, out_rx, bmsg,
                    results, calls, sd_done, join_res >>

\* broadcast, second loop: wait for the reply of the next vCPU in index
\* order; after the last one the list of entries is returned.
BroadcastRecv ==
    /\ ctl = "bc_recv"
    /\ bi < Len(chs_out_recv)
    /\ LET s == chs_out_recv[bi + 1]
           entry == RecvEntry(sent[bi + 1], s)
           last == bi + 1 = Len(chs_out_recv)
       IN  /\ sent[bi + 1] => RecvReady(s)
           /\ ch_out' = IF sent[bi + 1] /\ out_rx[s] = "alive"
                           /\ ch_out[s] # << >>
                        THEN [ch_out EXCEPT ![s] = Tail(@)]
                        ELSE ch_out
           /\ results' = IF last THEN << >> ELSE Append(results, entry)
           /\ calls' = IF last
                       THEN Append(calls, [op |-> "broadcast", msg |-> bmsg,
                                           after_shutdown |-> sd_done,
                                           res |-> Append(results, entry)])
                       ELSE calls
           /\ bi' = IF last THEN 0 ELSE bi + 1
           /\ ctl' = IF last THEN "idle" ELSE "bc_recv"
           /\ sent' = IF last THEN << >> ELSE sent
           /\ bmsg' = IF last THEN "none" ELSE bmsg
    /\ UNCHANGED << pureVars, vmmVars, newVars, arrVars, thr, vcpu_id, kvm_idx,
                    vcpu_fd, ch_in, in_tx, in_rx, out_tx, out_rx, sd_done,
                    join_res >>

\* shutdown() is called once on a manager returned by VcpuManager::new.
ShutdownCall ==
    /\ ctl = "idle"
    /\ mgr_res.tag = "Ok"
    /\ ~ sd_done
    /\ bmsg' = "Exit"
    /\ bi' = 0
    /\ ctl' = "sd_send"
    /\ UNCHANGED << pureVars, vmmVars, newVars, arrVars, slotVars, sent, results,
                    calls, sd_done, join_res >>

\* shutdown, first loop: send Exit to the next vCPU in index order; the
\* sender is consumed by the call and is gone afterwards.
ShutdownSend ==
    /\ ctl = "sd_send"
    /\ bi < Len(chs_in_send)
    /\ LET s == chs_in_send[bi + 1]
       IN  /\ ch_in' = IF SendOk(s)
                       THEN [ch_in EXCEPT ![s] = Append(@, bmsg)]
                       ELSE ch_in
           /\ in_tx' = [in_tx EXCEPT ![s] = "dropped"]
    /\ bi' = IF bi + 1 = Len(chs_in_send) THEN 0 ELSE bi + 1
    /\ ctl' = IF bi + 1 = Len(chs_in_send) THEN "sd_join" ELSE "sd_send"
    /\ UNCHANGED << pureVars, vmmVars, newVars, arrVars, thr, vcpu_id, kvm_idx,
                    vcpu_fd, in_rx, ch_out, out_tx, out_rx, bmsg,
                    sent, results, calls, sd_done, join_res >>

\* A thread can be joined once it has ended.
ThreadEnded(s) == thr[s] = "panicked"

\* Result of JoinHandle::join for an ended thread: Err for a panic.
JoinResult(s) == IF thr[s] = "panicked" THEN "Err" ELSE "Ok"

\* shutdown, second loop: join the next thread, consuming its join handle
\* and the reply receiver of its vCPU (with anything still queued on it); a
\* thread that panicked surfaces as a failed join.  After the last one
\* shutdown returns.
ShutdownJoin ==
    /\ ctl = "sd_join"
    /\ threads # << >>
    /\ LET s == Head(threads)
           last == Len(threads) = 1
       IN  /\ ThreadEnded(s)
           /\ join_res' = [join_res EXCEPT ![s] = JoinResult(s)]
           /\ threads' = Tail(threads)
           /\ out_rx' = [out_rx EXCEPT ![s] = "dropped"]
           /\ ch_out' = [ch_out EXCEPT ![s] = << >>]
           /\ sd_done' = last
           /\ ctl' = IF last THEN "idle" ELSE "sd_join"
           /\ bmsg' = IF last THEN "none" ELSE bmsg
           /\ calls' = IF last
                       THEN Append(calls, [op |-> "shutdown", msg |-> "Exit",
                                           after_shutdown |-> FALSE,
                                           res |-> << >>])
                       ELSE calls
    /\ UNCHANGED << pureVars, vmmVars, newVars, chs_in_send, chs_out_recv, thr,
                    vcpu_id, kvm_idx, vcpu_fd, ch_in, in_tx, in_rx, out_tx,
                    bi, sent, results >>

\* Steps the control thread takes inside broadcast and shutdown.
CallStep == BroadcastSend \/ BroadcastRecv \/ ShutdownSend \/ ShutdownJoin

Next ==
    \/ VmmNew
    \/ MgrNewCall
    \/ MgrNewSpawn
    \/ MgrNewFail
    \/ MgrNewReturn
    \/ \E s \in Slots : VcpuRun(s)
    \/ BroadcastCall
    \/ BroadcastSend
    \/ BroadcastRecv
    \/ ShutdownCall
    \/ ShutdownSend
    \/ ShutdownJoin

Spec == Init /\ [][Next]_vars

\* The scheduler runs every spawned thread and lets the control thread go on
\* inside a call whenever it is not blocked.
LiveSpec ==
    /\ Spec
    /\ WF_vars(CallStep)
    /\ WF_vars(MgrNewSpawn \/ MgrNewFail \/ MgrNewReturn)
    /\ \A s \in Slots : WF_vars(VcpuRun(s))

\* =================================================================== claims
\* Slots used by a manager built for count vCPUs.
Used == 0 .. (count - 1)

\* A vCPU is Paused when its thread sits idle in the receive on its control
\* channel.
VcpuPaused(s) == thr[s] = "paused"

\* The thread of slot s exists and has not ended.
ThreadAlive(s) == thr[s] # "none" /\ ~ ThreadEnded(s)

\* C1: whenever VcpuManager::new has returned Ok, exactly count threads have
\* been spawned (slots 0..count-1 and no other) and every one of them is
\* Paused, i.e. blocked on its control channel.
C1_AllPausedAtReturn ==
    mgr_res.tag = "Ok" =>
        /\ {s \in Slots : thr[s] # "none"} = Used
        /\ \A s \in Used : VcpuPaused(s)

\* broadcast(Run) and, after it, broadcast(Exit) have both returned.
RunThenExitReturned ==
    \E i, j \in DOMAIN calls :
        /\ i < j
        /\ calls[i].op = "broadcast" /\ calls[i].msg = "Run"
        /\ calls[j].op = "broadcast" /\ calls[j].msg = "Exit"

DenseIds ==
    /\ Len(threads) = count
    /\ Len(chs_in_send) = count
    /\ Len(chs_out_recv) = count
    /\ \A i \in Used :
          /\ vcpu_id[threads[i + 1]] = i
          /\ vcpu_id[chs_in_send[i + 1]] = i
          /\ vcpu_id[chs_out_recv[i + 1]] = i
          /\ kvm_idx[threads[i + 1]] = i
    /\ {vcpu_id[s] : s \in {t \in Slots : thr[t] # "none"}} = Used

\* C5: after VcpuManager::new returned Ok the ids are exactly 0..count-1, the
\* three vectors hold count entries each, entry i belongs to the vCPU with
\* id i, and no later step changes the vectors or the ids.
C5_DenseStable ==
    /\ [](mgr_res.tag = "Ok" => DenseIds)
    /\ [][mgr_res.tag = "Ok" =>
            /\ threads' = threads
            /\ chs_in_send' = chs_in_send
            /\ chs_out_recv' = chs_out_recv
            /\ vcpu_id' = vcpu_id
            /\ kvm_idx' = kvm_idx]_vars

\* Witness of C5: new returned Ok for more than one vCPU and a thread has
\* already taken a step since.
C5_Witness ==
    /\ mgr_res.tag = "Ok"
    /\ count > 1
    /\ \E s \in Used : ThreadEnded(s)

RunReplyPaused == [tag |-> "Ok", val |-> "Paused"]

\* C6: a broadcast(Run) made as the first call on a freshly constructed
\* manager returns one entry per vCPU, each being the reply RunReply(Paused).
C6_FreshRunRepliesPaused ==
    (calls # << >> /\ calls[1].op = "broadcast" /\ calls[1].msg = "Run") =>
        /\ Len(calls[1].res) = count
        /\ \A j \in 1 .. count : calls[1].res[j] = RunReplyPaused

\* C7 as stated: a Vm returned by construction has status Paused.
C7_ReturnedVmIsPaused ==
    vmm_res.tag = "Ok" => vmm_res.val.vm.status = "Paused"

\* Number of vCPU threads in existence.
NumThreads == Cardinality({s \in Slots : thr[s] # "none"})

\* After a failed construction nothing made by the attempt is left.
NothingLeft ==
    /\ kvm_fd # "open"
    /\ vm_fd # "open"
    /\ \A s \in Slots : ~ ThreadAlive(s) /\ vcpu_fd[s] # "open"

\* C8 as stated: construction returns either a fully built VM (guest memory
\* of the configured size, cpu.count vCPU threads, status Paused) or an
\* error with nothing left allocated.
C8_AtomicFullyBuilt ==
    /\ vmm_res.tag = "Ok" =>
          /\ vmm_res.val.vm.memory.size_mib =
                 vmm_res.val.vm.config.memory.size_mib
          /\ NumThreads = vmm_res.val.vm.config.cpu.count
          /\ vmm_res.val.vm.status = "Paused"
    /\ vmm_res.tag = "Err" => NothingLeft

\* C9: when create_vcpu fails at index k, new returns IoctlError, nothing
\* exists for any index >= k, and the threads of the indices below k are
\* still running and the caller still holds what it needs to shut them down
\* (their join handles and control senders).
C9_FailLeavesThreadsManageable ==
    mgr_res.tag = "Err" =>
        /\ mgr_res.err.tag = "IoctlError"
        /\ \A s \in Slots :
              s >= idx => thr[s] = "none" /\ vcpu_fd[s] = "none"
                          /\ in_tx[s] = "none" /\ out_rx[s] = "none"
        /\ \A s \in Slots :
              s < idx => /\ ThreadAlive(s)
                         /\ in_tx[s] = "alive"
                         /\ \E k \in 1 .. Len(threads) : threads[k] = s

\* ================================================================== json.rs
\* Json values.  A Number holds an f64; the model writes it as a count of
\* halves (num = 3 is 1.5), which is enough to have fractions, negative and
\* very large values.
JNull == [t |-> "Null"]
JBool(b) == [t |-> "Boolean", bool |-> b]
JNum(h) == [t |-> "Number", num |-> h]
JStr(x) == [t |-> "String", str |-> x]
JArr(a) == [t |-> "Array", arr |-> a]
JObj(m) == [t |-> "Object", obj |-> m]

\* An object without any key.
EmptyMap == [k \in {} |-> JNull]

None == [tag |-> "None"]
Some(v) == [tag |-> "Some", val |-> v]
Ok(v) == [tag |-> "Ok", val |-> v]

\* Json::take: the value under key of an object, None for anything else.
Take(j, key) ==
    IF j.t = "Object" /\ key \in DOMAIN j.obj THEN Some(j.obj[key]) ELSE None

\* Json::take_number / take_string / take_object / take_array: the value
\* only when it has the wanted type.
TakeTyped(j, key, type) ==
    LET got == Take(j, key)
    IN  IF got.tag = "Some" /\ got.val.t = type THEN got ELSE None

TakeNumber(j, key) ==
    LET got == TakeTyped(j, key, "Number")
    IN  IF got.tag = "Some" THEN Some(got.val.num) ELSE None

TakeString(j, key) ==
    LET got == TakeTyped(j, key, "String")
    IN  IF got.tag = "Some" THEN Some(got.val.str) ELSE None

TakeObject(j, key) == TakeTyped(j, key, "Object")

TakeArray(j, key) ==
    LET got == TakeTyped(j, key, "Array")
    IN  IF got.tag = "Some" THEN Some(got.val.arr) ELSE None

\* ================================================================ config.rs
MAX_VCPU_DEFAULT == 8192

\* `as u32` on an f64 given in halves: the fraction is cut off and a
\* negative value gives 0.  (A value above u32::MAX would give u32::MAX; the
\* numbers tried stay below 2^30, so that case does not arise here.)
AsU32(h) == IF h < 0 THEN 0 ELSE h \div 2

MissingConfig(path) == [tag |-> "MissingConfig", info |-> path]

IllegalConfig(what) == [tag |-> "IllegalConfig", info |-> what]

\* required!(object, func, prefix, str) when func gave None.
RequiredMissing(prefix, str) == Err(MissingConfig(prefix \o "." \o str))

\* The range test of CpuConfig::from, with the upper limit left out.
CountIllegal_noMax(c) == c = 0

\* The range test of CpuConfig::from.
CountIllegal(c) == c = 0 \/ c > MAX_VCPU_DEFAULT

\* CpuConfig::from
CpuConfigFrom(j) ==
    LET n == TakeNumber(j, "count")
    IN  IF n.tag = "None" THEN RequiredMissing("cpu", "count")
        ELSE LET c == AsU32(n.val)
             IN  IF CountIllegal(c)
                 THEN Err(IllegalConfig("cpu.count=" \o ToString(c)))
                 ELSE Ok([count |-> c])

\* MemoryConfig::from
MemoryConfigFrom(j) ==
    LET n == TakeNumber(j, "size_mib")
    IN  IF n.tag = "None" THEN RequiredMissing("memory", "size_mib")
        ELSE LET size == AsU32(n.val)
             IN  IF size = 0
                 THEN Err(IllegalConfig("memory.size_mib"))
                 ELSE Ok([size_mib |-> size])

\* DeviceConfig::from
DeviceConfigFrom(j) ==
    LET d == TakeString(j, "driver")
    IN  IF d.tag = "None" THEN RequiredMissing("device", "driver")
        ELSE Ok([driver |-> d.val, source |-> TakeString(j, "source")])

\* OsConfig::from
OsConfigFrom(j) ==
    Ok([kernel |-> TakeString(j, "kernel"),
        initrd |-> TakeString(j, "initrd"),
        rootfs |-> TakeString(j, "rootfs"),
        cmdline |-> TakeString(j, "cmdline")])

\* The match of LogConfig::from with an unknown string taken as Warn.
LogLevelOf_warn(l) ==
    IF l \in {"Debug", "debug"} THEN "Debug"
    ELSE IF l \in {"Info", "info"} THEN "Info"
    ELSE IF l \in {"Error", "error"} THEN "Error"
    ELSE "Warn"

\* The match of LogConfig::from on the level string.
LogLevelOf(l) ==
    IF l \in {"Debug", "debug"} THEN "Debug"
    ELSE IF l \in {"Info", "info"} THEN "Info"
    ELSE IF l \in {"Warn", "warn"} THEN "Warn"
    ELSE IF l \in {"Error", "error"} THEN "Error"
    ELSE "Debug"

\* LogConfig::from
LogConfigFrom(j) ==
    LET l == TakeString(j, "level")
    IN  Ok([level |-> IF l.tag = "Some" THEN Some(LogLevelOf(l.val)) ELSE None,
            path |-> TakeString(j, "path")])

\* VmmConfig::from
VmmConfigFrom(j) ==
    LET o == TakeObject(j, "log")
    IN  IF o.tag = "Some"
        THEN LET lc == LogConfigFrom(o.val)
             IN  IF lc.tag = "Err" THEN lc ELSE Ok([log |-> Some(lc.val)])
        ELSE Ok([log |-> None])

\* The loop of VmConfig::from over the device array: the error of the first
\* device that fails, else the list of device configurations.
DevicesFrom(arr) ==
    LET bad == {i \in 1 .. Len(arr) : DeviceConfigFrom(arr[i]).tag = "Err"}
    IN  IF bad # {}
        THEN DeviceConfigFrom(arr[CHOOSE i \in bad : \A k \in bad : i <= k])
        ELSE Ok([i \in 1 .. Len(arr) |-> DeviceConfigFrom(arr[i]).val])

\* VmConfig::from: the fields are built in the order cpu, memory, device, os,
\* vmm and the first error is returned.
VmConfigFrom(j) ==
    LET cpuo == TakeObject(j, "cpu")
        memo == TakeObject(j, "memory")
        deva == TakeArray(j, "device")
        oso == TakeObject(j, "os")
        vmmo == TakeObject(j, "vmm")
    IN  IF cpuo.tag = "None" THEN RequiredMissing("", "cpu")
        ELSE IF CpuConfigFrom(cpuo.val).tag = "Err" THEN CpuConfigFrom(cpuo.val)
        ELSE IF memo.tag = "None" THEN RequiredMissing("", "memory")
        ELSE IF MemoryConfigFrom(memo.val).tag = "Err"
             THEN MemoryConfigFrom(memo.val)
        ELSE IF deva.tag = "None" THEN RequiredMissing("", "device")
        ELSE IF DevicesFrom(deva.val).tag = "Err" THEN DevicesFrom(deva.val)
        ELSE IF oso.tag = "None" THEN RequiredMissing("", "os")
        ELSE IF OsConfigFrom(oso.val).tag = "Err" THEN OsConfigFrom(oso.val)
        ELSE IF vmmo.tag = "Some" /\ VmmConfigFrom(vmmo.val).tag = "Err"
             THEN VmmConfigFrom(vmmo.val)
        ELSE Ok([cpu |-> CpuConfigFrom(cpuo.val).val,
                 memory |-> MemoryConfigFrom(memo.val).val,
                 device |-> DevicesFrom(deva.val).val,
                 os |-> OsConfigFrom(oso.val).val,
                 vmm |-> IF vmmo.tag = "Some"
                         THEN Some(VmmConfigFrom(vmmo.val).val)
                         ELSE None])

\* ------------------------------------------------- inputs of the builder
\* Numbers tried for cpu.count and memory.size_mib, in halves: -1, 0, 0.5,
\* 1, 4, 8192, 8192.5, 8193, 8197 and 1000000000.
NumInputs ==
    {-2, 0, 1, 2, 8, 2 * MAX_VCPU_DEFAULT, 2 * MAX_VCPU_DEFAULT + 1,
     2 * MAX_VCPU_DEFAULT + 2, 2 * MAX_VCPU_DEFAULT + 10, 2000000000}

\* What may stand under a key that should hold a number: a number, null, a
\* string.
NumFieldInputs == {JNum(h) : h \in NumInputs} \cup {JNull, JStr("4")}

\* Objects with the one key k holding a value of vals, or with no key.
ObjectsWith(k, vals) ==
    {JObj(EmptyMap)} \cup {JObj([x \in {k} |-> v]) : v \in vals}

\* Level strings tried, one of them not a level.
LevelInputs == {"Debug", "Info", "warn", "error", "Verbose"}

LogInputs == ObjectsWith("level", {JStr(l) : l \in LevelInputs} \cup {JNull})

DeviceInputs ==
    {JArr(<< >>),
     JArr(<< JObj([x \in {"driver"} |-> JStr("virtio-blk")]) >>),
     JArr(<< JObj([x \in {"driver"} |-> JStr("vfio")]), JObj(EmptyMap) >>)}

\* The top-level objects tried: every key is either absent or holds one of
\* the values above ("absent" is written as the value None).
FieldChoices(k) ==
    IF k = "cpu" THEN ObjectsWith("count", NumFieldInputs) \cup {None, JNull}
    ELSE IF k = "memory"
         THEN ObjectsWith("size_mib", NumFieldInputs) \cup {None}
    ELSE IF k = "device" THEN DeviceInputs \cup {None}
    ELSE IF k = "os" THEN {JObj(EmptyMap), None}
    ELSE ObjectsWith("log", LogInputs) \cup {None}

TopKeys == {"cpu", "memory", "device", "os", "vmm"}

\* The object holding the chosen values under the keys that are present.
MakeObject(choice) ==
    JObj([k \in {x \in TopKeys : choice[x] # None} |-> choice[k]])

\* A Json value is handed to VmConfig::from.
ConfigInit ==
    /\ CoreInit
    /\ \E cpu \in FieldChoices("cpu"), mem \in FieldChoices("memory"),
          dev \in FieldChoices("device"), os \in FieldChoices("os"),
          vmm \in FieldChoices("vmm") :
          json = MakeObject([k \in TopKeys |->
                     IF k = "cpu" THEN cpu
                     ELSE IF k = "memory" THEN mem
                     ELSE IF k = "device" THEN dev
                     ELSE IF k = "os" THEN os ELSE vmm])
    /\ cfg_res = NoRes
    /\ log_level = "none"
    /\ log_file = << >>
    /\ log_last = NoRes
    /\ log_ret = "none"

\* VmConfig::from(json) is called.
ConfigBuild ==
    /\ cfg_res = NoRes
    /\ json # NoRes
    /\ cfg_res' = VmConfigFrom(json)
    /\ UNCHANGED << ctl, vmmVars, newVars, arrVars, slotVars, callVars,
                    json, log_level, log_file, log_last, log_ret >>

ConfigNext == ConfigBuild

ConfigSpec == ConfigInit /\ [][ConfigNext]_vars

\* The u32 a number field is read as: its whole part, 0 when negative.
WholePart(h) == IF h < 0 THEN 0 ELSE (h - (h % 2)) \div 2

\* The value under key of the object under top in the input, if any.
InputField(top, key) ==
    IF top \in DOMAIN json.obj /\ json.obj[top].t = "Object"
       /\ key \in DOMAIN json.obj[top].obj
    THEN Some(json.obj[top].obj[key])
    ELSE None

\* The input has an object under top.
HasObject(top) == top \in DOMAIN json.obj /\ json.obj[top].t = "Object"

\* The field is absent, null or not a number.
NotANumber(f) == f.tag = "None" \/ f.val.t # "Number"

\* The cpu part of the input is accepted.
CpuAccepted ==
    /\ HasObject("cpu")
    /\ ~ NotANumber(InputField("cpu", "count"))
    /\ WholePart(InputField("cpu", "count").val.num) \in 1 .. MAX_VCPU_DEFAULT

\* C11: VmConfig::from returns Ok only with 1 <= cpu.count <= 8192 and
\* memory.size_mib > 0; a count of 0 or above 8192 gives
\* IllegalConfig("cpu.count=<n>"), a size of 0 gives
\* IllegalConfig("memory.size_mib"), and an absent, null or non-number
\* count / size_mib gives MissingConfig("cpu.count") /
\* MissingConfig("memory.size_mib").  (cpu.count and memory.size_mib are the
\* values as read into u32; a memory error shows once the cpu part passed.)
C11_BuilderValidates ==
    cfg_res # NoRes =>
        LET cnt == InputField("cpu", "count")
            mem == InputField("memory", "size_mib")
        IN  /\ cfg_res.tag = "Ok" =>
                  /\ cfg_res.val.cpu.count \in 1 .. MAX_VCPU_DEFAULT
                  /\ cfg_res.val.memory.size_mib > 0
                  /\ cfg_res.val.cpu.count = WholePart(cnt.val.num)
                  /\ cfg_res.val.memory.size_mib = WholePart(mem.val.num)
            /\ (HasObject("cpu") /\ NotANumber(cnt)) =>
                  cfg_res = Err(MissingConfig("cpu.count"))
            /\ (HasObject("cpu") /\ ~ NotANumber(cnt)
                /\ WholePart(cnt.val.num) \notin 1 .. MAX_VCPU_DEFAULT) =>
                  cfg_res = Err(IllegalConfig(
                      "cpu.count=" \o ToString(WholePart(cnt.val.num))))
            /\ (CpuAccepted /\ HasObject("memory") /\ NotANumber(mem)) =>
                  cfg_res = Err(MissingConfig("memory.size_mib"))
            /\ (CpuAccepted /\ HasObject("memory") /\ ~ NotANumber(mem)
                /\ WholePart(mem.val.num) = 0) =>
                  cfg_res = Err(IllegalConfig("memory.size_mib"))

\* Witness of C11: a count of 8197 was rejected as cpu.count=8197.
C11_Witness ==
    /\ InputField("cpu", "count") = Some(JNum(2 * 8197))
    /\ cfg_res = Err(IllegalConfig("cpu.count=8197"))

\* =================================================================== log.rs
LogLevels == {"Debug", "Info", "Warn", "Error"}

\* `level as i32`: the discriminant of a LogLevel.
LevelNum(l) ==
    IF l = "Debug" THEN 0 ELSE IF l = "Info" THEN 1
    ELSE IF l = "Warn" THEN 2 ELSE 3

\* The test of FileLogger::log with > in place of >=.
LogPasses_strict(l2, l1) == LevelNum(l2) > LevelNum(l1)

\* The test of FileLogger::log: is a message labelled l2 written by a logger
\* running at l1.
LogPasses(l2, l1) == LevelNum(l2) >= LevelNum(l1)

\* Messages tried, as character sequences; the second holds a line break.
LogMsgs == { << "a" >>, << "a", "\n", "b" >> }

\* format!("{} {}\n", now, msg): "T" stands for the time stamp, which has a
\* fixed layout without a line break.
LogText(msg) == << "T", " " >> \o msg \o << "\n" >>

\* Number of calls made on the logger so far.
LogCalls == IF log_last = NoRes THEN 0 ELSE log_last.n

\* FileLogger::new(path, level) on a fresh file.
LogInit ==
    /\ CoreInit
    /\ json = NoRes
    /\ cfg_res = NoRes
    /\ log_level \in LogLevels
    /\ log_file = << >>
    /\ log_last = NoRes
    /\ log_ret = "none"

\* FileLogger::set_level
SetLevel(level) ==
    /\ log_level # "none"
    /\ LogCalls < MaxLogCalls
    /\ log_level' = level
    /\ log_last' = [op |-> "set_level", level |-> level, msg |-> << >>,
                    n |-> LogCalls + 1]
    /\ log_ret' = "unit"
    /\ UNCHANGED << ctl, vmmVars, newVars, arrVars, slotVars, callVars,
                    json, cfg_res, log_file >>

\* self.file.write_all(text): what the call may return and the file it
\* leaves.  Either all of text is appended and the call returns Ok, or a
\* write fails (file size limit, device full) after some part of text,
\* possibly nothing, has been appended, and the call returns the error.
WriteAll(file, text) ==
    {[ret |-> "Ok", file |-> file \o text]}
    \cup {[ret |-> "Err", file |-> file \o SubSeq(text, 1, k)] :
              k \in 0 .. (Len(text) - 1)}

\* FileLogger::log (also reached through debug / info / warn / error): the
\* result of write_all when the level passes, else Ok(()).
Log(level, msg) ==
    /\ log_level # "none"
    /\ LogCalls < MaxLogCalls
    /\ \E out \in (IF LogPasses(level, log_level)
                   THEN WriteAll(log_file, LogText(msg))
                   ELSE {[ret |-> "Ok", file |-> log_file]}) :
          /\ log_file' = out.file
          /\ log_ret' = out.ret
    /\ log_last' = [op |-> "log", level |-> level, msg |-> msg,
                    n |-> LogCalls + 1]
    /\ UNCHANGED << ctl, vmmVars, newVars, arrVars, slotVars, callVars,
                    json, cfg_res, log_level >>

LogNext ==
    \/ \E l \in LogLevels : SetLevel(l)
    \/ \E l \in LogLevels, m \in LogMsgs : Log(l, m)

LogSpec == LogInit /\ [][LogNext]_vars

\* Number of line ends in a text.
Lines(text) == Cardinality({i \in 1 .. Len(text) : text[i] = "\n"})

\* The step is a call of log.
IsLogCall == log_last' # log_last /\ log_last'.op = "log"

\* Debug < Info < Warn < Error
LevelAtLeast(l2, l1) ==
    \/ l2 = l1
    \/ l1 = "Debug"
    \/ l1 = "Info" /\ l2 \in {"Warn", "Error"}
    \/ l1 = "Warn" /\ l2 = "Error"

\* C12 as stated: a call of log with label L2 on a logger at L1 appends
\* exactly one line when L2 >= L1, and otherwise returns Ok and leaves the
\* log unchanged.
C12_OneLineIffAtLeast ==
    [][IsLogCall =>
          IF LevelAtLeast(log_last'.level, log_level)
          THEN Lines(log_file') = Lines(log_file) + 1
          ELSE log_file' = log_file /\ log_ret' = "Ok"]_vars

\* The entry written for a message: "<time> <msg>\n".
Entry(msg) == << "T", " " >> \o msg \o << "\n" >>

\* C12 amended: a call of log with label L2 on a logger at L1 writes the
\* entry "<time> <msg>\n" when L2 >= L1: either it returns Ok and the whole
\* entry has been appended once (one line, plus one more for every line
\* break inside msg), or the write failed, it returns the error and only an
\* incomplete part of the entry, possibly nothing, has been appended.  When
\* L2 < L1 it returns Ok and leaves the log unchanged.
C12_OneEntryIffAtLeast ==
    [][IsLogCall =>
          IF LevelAtLeast(log_last'.level, log_level)
          THEN \/ /\ log_ret' = "Ok"
                  /\ log_file' = log_file \o Entry(log_last'.msg)
                  /\ Lines(log_file') =
                         Lines(log_file) + 1 + Lines(log_last'.msg)
               \/ /\ log_ret' = "Err"
                  /\ \E k \in 0 .. (Len(Entry(log_last'.msg)) - 1) :
                        log_file' =
                            log_file \o SubSeq(Entry(log_last'.msg), 1, k)
          ELSE log_file' = log_file /\ log_ret' = "Ok"]_vars

\* Witness of C12: after a message was recorded the level was raised and a
\* message below the new level has been ignored.
C12_Witness ==
    /\ log_last # NoRes
    /\ log_last.op = "log"
    /\ log_last.n = 3
    /\ ~ LevelAtLeast(log_last.level, log_level)
    /\ log_ret = "Ok"
    /\ log_file = Entry(<< "a" >>)

\* ================================================== claims on the vCPU set
\* C16: once shutdown has sent Exit to every vCPU and joined every thread,
\* each thread has released its kernel handle and has returned from its
\* thread function (the join reports a normal end), and nothing was ever
\* sent on its reply channel.
C16_ExitReturnsQuietly ==
    sd_done =>
        \A s \in Used :
            /\ join_res[s] = "Ok"
            /\ vcpu_fd[s] = "closed"
            /\ ch_out[s] = << >>

\* C18: whenever a vCPU thread holds its vCPU handle, the VM handle it was
\* made from is still open.
C18_VcpuFdWithinVmFd ==
    \A s \in Slots : vcpu_fd[s] = "open" => mgr_fd = "open"

\* C19: whenever a vCPU thread is alive, somebody holds its join handle.
C19_NoDetachedThread ==
    \A s \in Slots :
        ThreadAlive(s) => \E k \in 1 .. Len(threads) : threads[k] = s

\* C20: a control message that was queued leaves the queue only by being
\* received, in the order sent, by its vCPU thread, which goes on living
\* after the receive; nothing else removes or reorders queued messages.
C20_QueuedUntilReceived ==
    [][\A s \in Slots :
          ch_in'[s] # ch_in[s] =>
              \/ \E m \in CtlMsgs : ch_in'[s] = Append(ch_in[s], m)
              \/ /\ ch_in[s] # << >>
                 /\ ch_in'[s] = Tail(ch_in[s])
                 /\ ThreadAlive(s)']_vars

\* ============================================== claims on vmm.log.level
\* The input has an object under vmm.log.
HasLog ==
    /\ HasObject("vmm")
    /\ "log" \in DOMAIN json.obj["vmm"].obj
    /\ json.obj["vmm"].obj["log"].t = "Object"

\* The value under vmm.log.level in the input, if any.
InputLevel ==
    IF /\ HasLog
       /\ "level" \in DOMAIN json.obj["vmm"].obj["log"].obj
    THEN Some(json.obj["vmm"].obj["log"].obj["level"])
    ELSE None

\* The spellings under which the builder knows the level n.
Spellings(n) ==
    IF n = "Debug" THEN {"Debug", "debug"}
    ELSE IF n = "Info" THEN {"Info", "info"}
    ELSE IF n = "Warn" THEN {"Warn", "warn"}
    ELSE {"Error", "error"}

\* vmm.log.level is a string that names no level in any spelling.
UnknownLevel ==
    /\ InputLevel.tag = "Some"
    /\ InputLevel.val.t = "String"
    /\ \A n \in LogLevels : InputLevel.val.str \notin Spellings(n)

\* The memory part of the input is accepted.
MemAccepted ==
    /\ HasObject("memory")
    /\ ~ NotANumber(InputField("memory", "size_mib"))
    /\ WholePart(InputField("memory", "size_mib").val.num) > 0

\* The device part of the input is accepted: an array of objects that each
\* have a driver string.
DevAccepted ==
    /\ "device" \in DOMAIN json.obj
    /\ json.obj["device"].t = "Array"
    /\ \A i \in 1 .. Len(json.obj["device"].arr) :
          LET d == json.obj["device"].arr[i]
          IN  /\ d.t = "Object"
              /\ "driver" \in DOMAIN d.obj
              /\ d.obj["driver"].t = "String"

\* The level carried by the LogConfig of an Ok result.
CarriedLevel == cfg_res.val.vmm.val.log.val.level

\* C21: VmConfig::from never returns Ok for an input whose vmm.log.level is
\* a string that names no level (such an input is rejected).
C21_UnknownLevelRejected ==
    cfg_res.tag = "Ok" => ~ UnknownLevel

\* C21, amended: a vmm.log.level string that names no level is not
\* rejected.  The builder reads it as Debug: with the rest of the input
\* accepted the result is Ok, and an Ok result carries the level Debug for
\* it, the named level for a known spelling, and no level when the value
\* is not a string or the log object has no level.
C21_UnknownLevelAmended ==
    cfg_res # NoRes =>
        /\ (UnknownLevel /\ CpuAccepted /\ MemAccepted /\ DevAccepted
            /\ HasObject("os")) => cfg_res.tag = "Ok"
        /\ (cfg_res.tag = "Ok" /\ UnknownLevel) =>
              CarriedLevel = Some("Debug")
        /\ (cfg_res.tag = "Ok" /\ InputLevel.tag = "Some") =>
              /\ \A n \in LogLevels :
                    (InputLevel.val.t = "String"
                     /\ InputLevel.val.str \in Spellings(n)) =>
                        CarriedLevel = Some(n)
              /\ InputLevel.val.t # "String" => CarriedLevel = None
        /\ (cfg_res.tag = "Ok" /\ HasLog /\ InputLevel.tag = "None") =>
              CarriedLevel = None

\* Witness of C21: the level "Verbose" came out of an Ok result as Debug.
C21_Witness ==
    /\ cfg_res.tag = "Ok"
    /\ InputLevel = Some(JStr("Verbose"))
    /\ CarriedLevel = Some("Debug")

====
